---- MODULE Spec2Model ----
(***************************************************************************)
(* Model of src/lib/season-parser.ts (parseSeasonFromTitle and             *)
(* chineseNumberToInt) and of the state of src/components/CorrectDialog.tsx *)
(* under its handlers.                                                     *)
(*                                                                         *)
(* A JavaScript string is modelled as a sequence of characters; a          *)
(* character is a TLA+ string.  ASCII characters stand for themselves,     *)
(* every other character is written by its code point ("U+7B2C" is 第).    *)
(* A value that may be null is a sequence of length 0 (null) or 1.         *)
(***************************************************************************)
EXTENDS Integers, Sequences, FiniteSets, TLC

VARIABLES title, pc, originalTitle, cleanTitle, seasonNumber, year,
          firedRule, prevRule, seasonToken, normalized, afterSeason,
          afterYear, yearRule, numStr, numResult,
          isOpen, currentTitle, searchQuery, searching, results, error,
          correcting, selectedResult, seasons, loadingSeasons,
          showSeasonSelection, searches, calls

vars == <<title, pc, originalTitle, cleanTitle, seasonNumber, year,
          firedRule, prevRule, seasonToken, normalized, afterSeason,
          afterYear, yearRule, numStr, numResult,
          isOpen, currentTitle, searchQuery, searching, results, error,
          correcting, selectedResult, seasons, loadingSeasons,
          showSeasonSelection, searches, calls>>

\* the state of CorrectDialog: its props, its useState cells, and the calls
\* of its async handlers that wait for a response
dialogVars == <<isOpen, currentTitle, searchQuery, searching, results, error,
                correcting, selectedResult, seasons, loadingSeasons,
                showSeasonSelection, searches, calls>>

parseVars == <<title, pc, originalTitle, cleanTitle, seasonNumber, year,
               firedRule, prevRule, seasonToken, normalized, afterSeason,
               afterYear, yearRule>>

(***************************************************************************)
(* Characters                                                              *)
(***************************************************************************)
Di  == "U+7B2C"   \* 第
Ji  == "U+5B63"   \* 季
Bu  == "U+90E8"   \* 部
Yi  == "U+4E00"   \* 一
Er  == "U+4E8C"   \* 二
San == "U+4E09"   \* 三
Si  == "U+56DB"   \* 四
Wu  == "U+4E94"   \* 五
Liu == "U+516D"   \* 六
Qi  == "U+4E03"   \* 七
Ba  == "U+516B"   \* 八
Jiu == "U+4E5D"   \* 九
Shi == "U+5341"   \* 十
MidDot == "U+00B7" \* ·

null == <<>>

\* \d
Digits == {"0", "1", "2", "3", "4", "5", "6", "7", "8", "9"}

Upper == {"A", "B", "C", "D", "E", "F", "G", "H", "I", "J", "K", "L", "M",
          "N", "O", "P", "Q", "R", "S", "T", "U", "V", "W", "X", "Y", "Z"}

Lower == {"a", "b", "c", "d", "e", "f", "g", "h", "i", "j", "k", "l", "m",
          "n", "o", "p", "q", "r", "s", "t", "u", "v", "w", "x", "y", "z"}

\* \w, the class that decides \b
WordChars == Upper \cup Lower \cup Digits \cup {"_"}

\* \s and what trim() strips, as far as the titles of this model go
SpaceChars == {" ", "\t", "\n", "\r"}

\* the character class of the Chinese rules: [一二三四五六七八九十\d]
NumeralChars == {Yi, Er, San, Si, Wu, Liu, Qi, Ba, Jiu, Shi} \cup Digits

DigitValue(c) ==
  CASE c = "0" -> 0 [] c = "1" -> 1 [] c = "2" -> 2 [] c = "3" -> 3
    [] c = "4" -> 4 [] c = "5" -> 5 [] c = "6" -> 6 [] c = "7" -> 7
    [] c = "8" -> 8 [] c = "9" -> 9

(***************************************************************************)
(* String helpers                                                          *)
(***************************************************************************)
\* s.substring(from) with a 1-based index
Drop(s, n) == SubSeq(s, n + 1, Len(s))

Take(s, n) == SubSeq(s, 1, n)

AllIn(s, class) == \A i \in 1..Len(s) : s[i] \in class

\* String.prototype.trim
trim(s) ==
  LET keep == {i \in 1..Len(s) : s[i] \notin SpaceChars}
  IN  IF keep = {} THEN <<>>
      ELSE LET lo == CHOOSE i \in keep : \A j \in keep : i <= j
               hi == CHOOSE i \in keep : \A j \in keep : j <= i
           IN  SubSeq(s, lo, hi)

\* value of a run of decimal digits
RECURSIVE DigitsValue(_)
DigitsValue(s) ==
  IF s = <<>> THEN 0
  ELSE 10 * DigitsValue(Take(s, Len(s) - 1)) + DigitValue(s[Len(s)])

\* length of the longest prefix of s made of characters of class
RECURSIVE PrefixLen(_, _)
PrefixLen(s, class) ==
  IF s = <<>> \/ s[1] \notin class THEN 0 ELSE 1 + PrefixLen(Tail(s), class)

\* parseInt(s, 10): leading white space is skipped, an optional sign is read,
\* then the longest run of digits; NaN when that run is empty.
parseInt(s) ==
  LET t    == Drop(s, PrefixLen(s, SpaceChars))
      neg  == t # <<>> /\ t[1] = "-"
      u    == IF t # <<>> /\ t[1] \in {"-", "+"} THEN Tail(t) ELSE t
      n    == PrefixLen(u, Digits)
      v    == DigitsValue(Take(u, n))
  IN  [nan |-> n = 0, val |-> IF neg THEN 0 - v ELSE v]

(***************************************************************************)
(* chineseNumberToInt                                                      *)
(***************************************************************************)
\* the table chineseNumbers; 0 stands for undefined (every entry is >= 1)
chineseNumbers(key) ==
  IF Len(key) # 1 THEN 0
  ELSE CASE key[1] = Yi  -> 1 [] key[1] = Er  -> 2 [] key[1] = San -> 3
         [] key[1] = Si  -> 4 [] key[1] = Wu  -> 5 [] key[1] = Liu -> 6
         [] key[1] = Qi  -> 7 [] key[1] = Ba  -> 8 [] key[1] = Jiu -> 9
         [] key[1] = Shi -> 10
         [] OTHER -> 0

\* str.indexOf('十'), 1-based; 0 when absent
IndexOfShi(str) ==
  IF \E i \in 1..Len(str) : str[i] = Shi
  THEN CHOOSE i \in 1..Len(str) :
         str[i] = Shi /\ \A j \in 1..(i - 1) : str[j] # Shi
  ELSE 0

\* the last line of the function: chineseNumbers[str] || parseInt(str, 10) || 1
SingleNumeral(str) ==
  IF chineseNumbers(str) # 0 THEN chineseNumbers(str)
  ELSE IF ~parseInt(str).nan /\ parseInt(str).val # 0 THEN parseInt(str).val
  ELSE 1

\* chineseNumberToInt with the 十X branch looking up the whole string
\* instead of str.substring(1)
chineseNumberToInt_wholeKey(str) ==
  IF str # <<>> /\ AllIn(str, Digits) THEN parseInt(str).val
  ELSE IF str = <<Shi>> THEN 10
  ELSE IF str # <<>> /\ str[1] = Shi THEN 10 + chineseNumbers(str)
  ELSE IF str # <<>> /\ str[Len(str)] = Shi
       THEN chineseNumbers(Take(str, Len(str) - 1)) * 10
  ELSE IF IndexOfShi(str) # 0
       THEN chineseNumbers(Take(str, IndexOfShi(str) - 1)) * 10
            + chineseNumbers(Drop(str, IndexOfShi(str)))
  ELSE SingleNumeral(str)

chineseNumberToInt(str) ==
  IF str # <<>> /\ AllIn(str, Digits) THEN parseInt(str).val
  ELSE IF str = <<Shi>> THEN 10
  ELSE IF str # <<>> /\ str[1] = Shi THEN 10 + chineseNumbers(Drop(str, 1))
  ELSE IF str # <<>> /\ str[Len(str)] = Shi
       THEN chineseNumbers(Take(str, Len(str) - 1)) * 10
  ELSE IF IndexOfShi(str) # 0
       THEN chineseNumbers(Take(str, IndexOfShi(str) - 1)) * 10
            + chineseNumbers(Drop(str, IndexOfShi(str)))
  ELSE SingleNumeral(str)

(***************************************************************************)
(* Regular-expression matching                                             *)
(***************************************************************************)
\* the character at 1-based index i; "" (in no class) outside the string
At(t, i) == IF i \in 1..Len(t) THEN t[i] ELSE ""

\* \b at the gap before index p
WordBoundary(t, p) == (At(t, p - 1) \in WordChars) # (At(t, p) \in WordChars)

\* \] at p
CloseBracket(t, p) == At(t, p) = "]"

\* 季\] and 季 at p
JiClose(t, p) == At(t, p) = Ji /\ At(t, p + 1) = "]"
JiAt(t, p) == At(t, p) = Ji

\* 部\] and 部 at p
BuClose(t, p) == At(t, p) = Bu /\ At(t, p + 1) = "]"
BuAt(t, p) == At(t, p) = Bu

\* class{1,2} at j, greedy with backtracking: the number of characters taken
\* so that the rest of the pattern matches right after them (after2: it
\* matches at j + 2, after1: at j + 1); 0 when the group cannot match
Counted(t, j, class, after1, after2) ==
  IF At(t, j) \in class /\ At(t, j + 1) \in class /\ after2 THEN 2
  ELSE IF At(t, j) \in class /\ after1 THEN 1
  ELSE 0

\* Season under the i flag, at i
SeasonWordAt(t, i) ==
  /\ At(t, i)     \in {"S", "s"}
  /\ At(t, i + 1) \in {"E", "e"}
  /\ At(t, i + 2) \in {"A", "a"}
  /\ At(t, i + 3) \in {"S", "s"}
  /\ At(t, i + 4) \in {"O", "o"}
  /\ At(t, i + 5) \in {"N", "n"}

\* \s+ at j (greedy; what follows is a digit, so no shorter run can match)
SpaceRun(t, j) == PrefixLen(Drop(t, j - 1), SpaceChars)

NoMatch == [len |-> 0, cap |-> <<>>]

\* a match of len characters at i whose group 1 is the n characters from c
Match(t, i, len, c, n) ==
  IF n = 0 THEN NoMatch ELSE [len |-> len, cap |-> SubSeq(t, c, c + n - 1)]

\* /\[([Ss]\d{1,2})\]/ at i
regexBracketS(t, i) ==
  IF At(t, i) = "[" /\ At(t, i + 1) \in {"S", "s"}
  THEN LET n == Counted(t, i + 2, Digits,
                        CloseBracket(t, i + 3), CloseBracket(t, i + 4))
       IN  Match(t, i, n + 3, i + 1, IF n = 0 THEN 0 ELSE n + 1)
  ELSE NoMatch

\* /\b[Ss](\d{1,2})\b/ at i
regexS(t, i) ==
  IF WordBoundary(t, i) /\ At(t, i) \in {"S", "s"}
  THEN LET n == Counted(t, i + 1, Digits,
                        WordBoundary(t, i + 2), WordBoundary(t, i + 3))
       IN  Match(t, i, n + 1, i + 1, n)
  ELSE NoMatch

\* /\[Season\s+(\d{1,2})\]/i at i
regexBracketSeason(t, i) ==
  IF At(t, i) = "[" /\ SeasonWordAt(t, i + 1) /\ SpaceRun(t, i + 7) > 0
  THEN LET w == SpaceRun(t, i + 7)
           n == Counted(t, i + 7 + w, Digits,
                        CloseBracket(t, i + 8 + w), CloseBracket(t, i + 9 + w))
       IN  Match(t, i, 8 + w + n, i + 7 + w, n)
  ELSE NoMatch

\* /\bSeason\s+(\d{1,2})\b/i at i
regexSeason(t, i) ==
  IF WordBoundary(t, i) /\ SeasonWordAt(t, i) /\ SpaceRun(t, i + 6) > 0
  THEN LET w == SpaceRun(t, i + 6)
           n == Counted(t, i + 6 + w, Digits,
                        WordBoundary(t, i + 7 + w), WordBoundary(t, i + 8 + w))
       IN  Match(t, i, 6 + w + n, i + 6 + w, n)
  ELSE NoMatch

\* /\[第([一二三四五六七八九十\d]{1,2})季\]/ at i
regexBracketJi(t, i) ==
  IF At(t, i) = "[" /\ At(t, i + 1) = Di
  THEN LET n == Counted(t, i + 2, NumeralChars,
                        JiClose(t, i + 3), JiClose(t, i + 4))
       IN  Match(t, i, n + 4, i + 2, n)
  ELSE NoMatch

\* /第([一二三四五六七八九十\d]{1,2})季/ at i
regexJi(t, i) ==
  IF At(t, i) = Di
  THEN LET n == Counted(t, i + 1, NumeralChars,
                        JiAt(t, i + 2), JiAt(t, i + 3))
       IN  Match(t, i, n + 2, i + 1, n)
  ELSE NoMatch

\* /\[第([一二三四五六七八九十\d]{1,2})部\]/ at i
regexBracketBu(t, i) ==
  IF At(t, i) = "[" /\ At(t, i + 1) = Di
  THEN LET n == Counted(t, i + 2, NumeralChars,
                        BuClose(t, i + 3), BuClose(t, i + 4))
       IN  Match(t, i, n + 4, i + 2, n)
  ELSE NoMatch

\* /第([一二三四五六七八九十\d]{1,2})部/ at i
regexBu(t, i) ==
  IF At(t, i) = Di
  THEN LET n == Counted(t, i + 1, NumeralChars,
                        BuAt(t, i + 2), BuAt(t, i + 3))
       IN  Match(t, i, n + 2, i + 1, n)
  ELSE NoMatch

\* the table patterns: the regex of entry k, tried at i
NumPatterns == 8

patternAt(k, t, i) ==
  CASE k = 1 -> regexBracketS(t, i)
    [] k = 2 -> regexS(t, i)
    [] k = 3 -> regexBracketSeason(t, i)
    [] k = 4 -> regexSeason(t, i)
    [] k = 5 -> regexBracketJi(t, i)
    [] k = 6 -> regexJi(t, i)
    [] k = 7 -> regexBracketBu(t, i)
    [] k = 8 -> regexBu(t, i)

\* match[1].match(/[Ss](\d{1,2})/) of entry 1, then parseInt; null when the
\* inner match fails
extractBracketS(cap) ==
  LET hits == {i \in 1..Len(cap) :
                 cap[i] \in {"S", "s"} /\ At(cap, i + 1) \in Digits}
  IN  IF hits = {} THEN null
      ELSE LET i == CHOOSE h \in hits : \A g \in hits : h <= g
               n == IF At(cap, i + 2) \in Digits THEN 2 ELSE 1
           IN  <<parseInt(SubSeq(cap, i + 1, i + n)).val>>

\* the extract function of entry k applied to group 1
extract(k, cap) ==
  CASE k = 1 -> extractBracketS(cap)
    [] k \in {2, 3, 4} -> <<parseInt(cap).val>>
    [] k \in {5, 6, 7, 8} -> <<chineseNumberToInt(cap)>>

\* the least element of a set of positions, 0 when it is empty: a non-global
\* regex matches (String.prototype.match) and replaces at its leftmost match
leftmost(hits) ==
  IF hits = {} THEN 0 ELSE CHOOSE h \in hits : \A g \in hits : h <= g

\* cleanTitle.match(pattern.regex) for entry k: the position, 0 for no match
seasonMatch(k, t) == leftmost({i \in 1..Len(t) : patternAt(k, t, i).len > 0})

\* removeAt with the two remaining halves joined in the wrong order
removeAt_swapped(t, i, len) == Drop(t, i + len - 1) \o Take(t, i - 1)

\* t.replace(regex, '') for the match of len characters at i
removeAt(t, i, len) == Take(t, i - 1) \o Drop(t, i + len - 1)

(***************************************************************************)
(* parseSeasonFromTitle                                                    *)
(***************************************************************************)
\* normalize without the replacement of underscores
normalize_keep(t) == t

\* title.replace(/_/g, ' ')
normalize(t) == [i \in 1..Len(t) |-> IF t[i] = "_" THEN " " ELSE t[i]]

\* the loop over patterns from entry k on: the first entry whose regex matches
\* and whose extract is not null sets seasonNumber and removes its match
RECURSIVE seasonLoop(_, _)
seasonLoop(t, k) ==
  IF k > NumPatterns
  THEN [seasonNumber |-> null, cleanTitle |-> t, rule |-> 0, token |-> <<>>]
  ELSE LET i == seasonMatch(k, t)
           m == IF i = 0 THEN NoMatch ELSE patternAt(k, t, i)
           extracted == IF i = 0 THEN null ELSE extract(k, m.cap)
       IN  IF i # 0 /\ extracted # null
           THEN [seasonNumber |-> extracted,
                 cleanTitle   |-> trim(removeAt(t, i, m.len)),
                 rule         |-> k,
                 token        |-> SubSeq(t, i, i + m.len - 1)]
           ELSE seasonLoop(t, k + 1)

\* seasonStep choosing the entry whose match starts first in the title
\* instead of the first entry of the table that matches
seasonStep_byPosition(t) ==
  LET cands == {k \in 1..NumPatterns : seasonMatch(k, t) # 0}
  IN  IF cands = {} THEN seasonLoop(t, 1)
      ELSE LET k == CHOOSE c \in cands : \A d \in cands :
                      \/ seasonMatch(c, t) < seasonMatch(d, t)
                      \/ seasonMatch(c, t) = seasonMatch(d, t) /\ c <= d
           IN  seasonLoop(t, k)

seasonStep(t) == seasonLoop(t, 1)

\* /\[(\d{4})\]/, /\((\d{4})\)/ and /\b(\d{4})\b/ at i
FourDigits(t, i) == \A j \in i..(i + 3) : At(t, j) \in Digits

yearBracket(t, i) ==
  IF At(t, i) = "[" /\ FourDigits(t, i + 1) /\ At(t, i + 5) = "]"
  THEN Match(t, i, 6, i + 1, 4) ELSE NoMatch

yearParen(t, i) ==
  IF At(t, i) = "(" /\ FourDigits(t, i + 1) /\ At(t, i + 5) = ")"
  THEN Match(t, i, 6, i + 1, 4) ELSE NoMatch

yearBare(t, i) ==
  IF WordBoundary(t, i) /\ FourDigits(t, i) /\ WordBoundary(t, i + 4)
  THEN Match(t, i, 4, i, 4) ELSE NoMatch

NumYearPatterns == 3

yearPatternAt(k, t, i) ==
  CASE k = 1 -> yearBracket(t, i)
    [] k = 2 -> yearParen(t, i)
    [] k = 3 -> yearBare(t, i)

\* cleanTitle.match(yearPattern) for entry k: the position, 0 for no match
yearMatch(k, t) == leftmost({i \in 1..Len(t) : yearPatternAt(k, t, i).len > 0})

MinYear == 1900
MaxYear == 2100

\* validYear without the upper limit
validYear_noUpper(y) == y >= MinYear

\* extractedYear >= 1900 && extractedYear <= 2100
validYear(y) == y >= MinYear /\ y <= MaxYear

\* the loop over yearPatterns from entry k on: the first entry whose leftmost
\* match holds a valid year sets year and removes that match
RECURSIVE yearLoop(_, _)
yearLoop(t, k) ==
  IF k > NumYearPatterns
  THEN [year |-> null, cleanTitle |-> t, rule |-> 0]
  ELSE LET i == yearMatch(k, t)
           m == IF i = 0 THEN NoMatch ELSE yearPatternAt(k, t, i)
           extractedYear == parseInt(m.cap).val
       IN  IF i # 0 /\ validYear(extractedYear)
           THEN [year       |-> <<extractedYear>>,
                 cleanTitle |-> trim(removeAt(t, i, m.len)),
                 rule       |-> k]
           ELSE yearLoop(t, k + 1)

\* yearStep giving up at the first pattern that matches an invalid year
RECURSIVE yearLoop_stopAtMatch(_, _)
yearLoop_stopAtMatch(t, k) ==
  IF k > NumYearPatterns
  THEN [year |-> null, cleanTitle |-> t, rule |-> 0]
  ELSE LET i == yearMatch(k, t)
           m == IF i = 0 THEN NoMatch ELSE yearPatternAt(k, t, i)
           extractedYear == parseInt(m.cap).val
       IN  IF i # 0 /\ validYear(extractedYear)
           THEN [year       |-> <<extractedYear>>,
                 cleanTitle |-> trim(removeAt(t, i, m.len)),
                 rule       |-> k]
           ELSE IF i # 0 THEN [year |-> null, cleanTitle |-> t, rule |-> 0]
           ELSE yearLoop_stopAtMatch(t, k + 1)

yearStep_stopAtMatch(t) == yearLoop_stopAtMatch(t, 1)

yearStep(t) == yearLoop(t, 1)

\* .replace(/\[\s*\]/g, '') and .replace(/\(\s*\)/g, ''): one scan from the
\* left, every match removed, the scan resumed after the match
RECURSIVE removeEmptyPairs(_, _, _)
removeEmptyPairs(t, open, close) ==
  IF t = <<>> THEN <<>>
  ELSE LET w == PrefixLen(Tail(t), SpaceChars)
       IN  IF t[1] = open /\ At(t, w + 2) = close
           THEN removeEmptyPairs(Drop(t, w + 2), open, close)
           ELSE <<t[1]>> \o removeEmptyPairs(Tail(t), open, close)

\* .replace(/\s+/g, ' ')
RECURSIVE collapseSpaces(_)
collapseSpaces(t) ==
  IF t = <<>> THEN <<>>
  ELSE IF t[1] \in SpaceChars
       THEN <<" ">> \o collapseSpaces(Drop(t, PrefixLen(t, SpaceChars)))
       ELSE <<t[1]>> \o collapseSpaces(Tail(t))

\* [·\-_\s]
TrailingChars == {MidDot, "-", "_"} \cup SpaceChars

\* .replace(/[·\-_\s]+$/, ''): the run that reaches the end of the string
stripTrailing(t) ==
  LET keep == {i \in 1..Len(t) : t[i] \notin TrailingChars}
  IN  IF keep = {} THEN <<>>
      ELSE Take(t, CHOOSE i \in keep : \A j \in keep : j <= i)

\* the cleanup chain that ends the function
cleanStep(t) ==
  trim(stripTrailing(collapseSpaces(
    removeEmptyPairs(removeEmptyPairs(t, "[", "]"), "(", ")"))))

\* the whole function, with the working title after each step
parseSeasonFromTitle(t) ==
  LET n == normalize(t)
      s == seasonStep(n)
      y == yearStep(s.cleanTitle)
  IN  [originalTitle |-> t,
       cleanTitle    |-> cleanStep(y.cleanTitle),
       seasonNumber  |-> s.seasonNumber,
       year          |-> y.year,
       normalized    |-> n,
       rule          |-> s.rule,
       token         |-> s.token,
       afterSeason   |-> s.cleanTitle,
       yearRule      |-> y.rule,
       afterYear     |-> y.cleanTitle]

(***************************************************************************)
(* The dialog takes no part in the calls of the parser                     *)
(***************************************************************************)
NoDialog ==
  /\ isOpen = FALSE
  /\ currentTitle = <<>>
  /\ searchQuery = <<>>
  /\ searching = FALSE
  /\ results = <<>>
  /\ error = ""
  /\ correcting = FALSE
  /\ selectedResult = <<>>
  /\ seasons = <<>>
  /\ loadingSeasons = FALSE
  /\ showSeasonSelection = FALSE
  /\ searches = 0
  /\ calls = {}

(***************************************************************************)
(* Inputs                                                                  *)
(***************************************************************************)
\* the titles of testSeasonParser, one by one
\* 权力的游戏 第一季
T_QuanLiSeason1 == <<"U+6743", "U+529B", "U+7684", "U+6E38", "U+620F", " ",
    Di, Yi, Ji>>
\* Breaking Bad S01
T_BreakingBad == <<"B", "r", "e", "a", "k", "i", "n", "g", " ", "B", "a",
    "d", " ", "S", "0", "1">>
\* Game of Thrones Season 1
T_GameOfThrones == <<"G", "a", "m", "e", " ", "o", "f", " ", "T", "h", "r",
    "o", "n", "e", "s", " ", "S", "e", "a", "s", "o", "n", " ", "1">>
\* 绝命毒师 第1季
T_JueMingSeason1 == <<"U+7EDD", "U+547D", "U+6BD2", "U+5E08", " ", Di, "1",
    Ji>>
\* 权力的游戏 S1
T_QuanLiS1 == <<"U+6743", "U+529B", "U+7684", "U+6E38", "U+620F", " ", "S",
    "1">>
\* 权力的游戏
T_QuanLi == <<"U+6743", "U+529B", "U+7684", "U+6E38", "U+620F">>
\* 绝命毒师 第二部
T_JueMingPart2 == <<"U+7EDD", "U+547D", "U+6BD2", "U+5E08", " ", Di, Er,
    Bu>>
\* Stranger Things S03
T_StrangerThings == <<"S", "t", "r", "a", "n", "g", "e", "r", " ", "T",
    "h", "i", "n", "g", "s", " ", "S", "0", "3">>

testCases ==
  {T_QuanLiSeason1, T_BreakingBad, T_GameOfThrones, T_JueMingSeason1,
   T_QuanLiS1, T_QuanLi, T_JueMingPart2, T_StrangerThings}

\* two more titles in the shapes the header comment lists (a bare year
\* after underscores, a year in brackets)
\* Movie_Title_2021
T_MovieTitle == <<"M", "o", "v", "i", "e", "_", "T", "i", "t", "l", "e",
    "_", "2", "0", "2", "1">>
\* [2023] Some Movie
T_SomeMovie == <<"[", "2", "0", "2", "3", "]", " ", "S", "o", "m", "e",
    " ", "M", "o", "v", "i", "e">>

\* further titles: underscores, tabs, nested and empty pairs, years in
\* brackets and parentheses, repeated and malformed season tokens
EdgeTitles ==
  {
    T_MovieTitle, T_SomeMovie,
    \* [()]
    <<"[", "(", ")", "]">>,
    \* [[]]
    <<"[", "[", "]", "]">>,
    \* (())
    <<"(", "(", ")", ")">>,
    \* a<TAB>b
    <<"a", "\t", "b">>,
    \* a ·-
    <<"a", " ", MidDot, "-">>,
    \* (1900)
    <<"(", "1", "9", "0", "0", ")">>,
    \* (2101) 1900
    <<"(", "2", "1", "0", "1", ")", " ", "1", "9", "0", "0">>,
    \* 1900 (2101)
    <<"1", "9", "0", "0", " ", "(", "2", "1", "0", "1", ")">>,
    \* [1800] (2020)
    <<"[", "1", "8", "0", "0", "]", " ", "(", "2", "0", "2", "0", ")">>,
    \* 2100
    <<"2", "1", "0", "0">>,
    \* S1 S1
    <<"S", "1", " ", "S", "1">>,
    \* S1_S1
    <<"S", "1", "_", "S", "1">>,
    \* [S[S1]1]
    <<"[", "S", "[", "S", "1", "]", "1", "]">>,
    \* 第1十季
    <<Di, "1", Shi, Ji>>,
    \* 第十十季
    <<Di, Shi, Shi, Ji>>,
    \* 第二十季
    <<Di, Er, Shi, Ji>>,
    \* [S00]
    <<"[", "S", "0", "0", "]">>,
    \* Show (2019) [S02]
    <<"S", "h", "o", "w", " ", "(", "2", "0", "1", "9", ")", " ", "[", "S",
      "0", "2", "]">>,
    \* 第第1季季
    <<Di, Di, "1", Ji, Ji>>,
    \* S1 - 2020 -
    <<"S", "1", " ", "-", " ", "2", "0", "2", "0", " ", "-">> }

\* the pieces titles are put together from: single characters, one season
\* token per entry of patterns, and year tokens on both sides of the range
Pieces ==
  { <<" ">>, <<"_">>, <<"-">>, <<"[">>, <<"]">>, <<"(">>, <<")">>,
    <<"s">>, <<"0">>,
    <<"[", "S", "1", "]">>,
    <<"S", "2">>,
    <<"[", "S", "e", "a", "s", "o", "n", " ", "3", "]">>,
    <<"s", "e", "a", "s", "o", "n", " ", "4">>,
    <<"[", Di, Wu, Ji, "]">>,
    <<Di, "6", Ji>>,
    <<"[", Di, Qi, Bu, "]">>,
    <<Di, Shi, Bu>>,
    <<"1", "9", "0", "0">>,
    <<"2", "1", "0", "1">>,
    <<"[", "1", "8", "9", "9", "]">> }

MaxPieces == 3

\* every title made of at most n pieces
RECURSIVE TitlesOf(_)
TitlesOf(n) ==
  IF n = 0 THEN {<<>>}
  ELSE LET shorter == TitlesOf(n - 1)
       IN  shorter \cup {t \o p : t \in shorter, p \in Pieces}

Titles == TitlesOf(MaxPieces) \cup testCases \cup EdgeTitles

(***************************************************************************)
(* The state machine: one call of parseSeasonFromTitle on title, then one  *)
(* more call on the cleanTitle it returned                                 *)
(***************************************************************************)
Init ==
  /\ title \in Titles
  /\ pc = "ready"
  /\ originalTitle = <<>>
  /\ cleanTitle = <<>>
  /\ seasonNumber = null
  /\ year = null
  /\ firedRule = 0
  /\ prevRule = 0
  /\ seasonToken = <<>>
  /\ normalized = <<>>
  /\ afterSeason = <<>>
  /\ afterYear = <<>>
  /\ yearRule = 0
  /\ numStr = <<>>
  /\ numResult = null
  /\ NoDialog

\* the variables a call of parseSeasonFromTitle(t) sets
Returned(t) ==
  \E r \in {parseSeasonFromTitle(t)} :
      /\ originalTitle' = r.originalTitle
      /\ cleanTitle' = r.cleanTitle
      /\ seasonNumber' = r.seasonNumber
      /\ year' = r.year
      /\ firedRule' = r.rule
      /\ seasonToken' = r.token
      /\ normalized' = r.normalized
      /\ afterSeason' = r.afterSeason
      /\ afterYear' = r.afterYear
      /\ yearRule' = r.yearRule

Parse ==
  /\ pc = "ready"
  /\ Returned(title)
  /\ pc' = "parsed"
  /\ UNCHANGED <<title, prevRule, numStr, numResult, dialogVars>>

Reparse ==
  /\ pc = "parsed"
  /\ title' = cleanTitle
  /\ prevRule' = firedRule
  /\ Returned(cleanTitle)
  /\ pc' = "reparsed"
  /\ UNCHANGED <<numStr, numResult, dialogVars>>

Next == Parse \/ Reparse

Spec == Init /\ [][Next]_vars

(***************************************************************************)
(* The state machine of one call of chineseNumberToInt on numStr           *)
(***************************************************************************)
MaxNumLen == 3

RECURSIVE StringsOver(_, _)
StringsOver(alphabet, n) ==
  IF n = 0 THEN {<<>>}
  ELSE LET shorter == StringsOver(alphabet, n - 1)
       IN  shorter \cup {t \o <<c>> : t \in shorter, c \in alphabet}

NumStrings == StringsOver(NumeralChars, MaxNumLen)

InitNum ==
  /\ numStr \in NumStrings
  /\ numResult = null
  /\ title = <<>>
  /\ pc = "number"
  /\ originalTitle = <<>>
  /\ cleanTitle = <<>>
  /\ seasonNumber = null
  /\ year = null
  /\ firedRule = 0
  /\ prevRule = 0
  /\ seasonToken = <<>>
  /\ normalized = <<>>
  /\ afterSeason = <<>>
  /\ afterYear = <<>>
  /\ yearRule = 0
  /\ NoDialog

Convert ==
  /\ pc = "number"
  /\ numResult = null
  /\ numResult' = <<chineseNumberToInt(numStr)>>
  /\ UNCHANGED <<numStr, parseVars, dialogVars>>

NextNum == Convert

SpecNum == InitNum /\ [][NextNum]_vars

(***************************************************************************)
(* Properties                                                              *)
(***************************************************************************)
\* the numerals 一..九 in order: the value of Numerals[n] is n
Numerals == <<Yi, Er, San, Si, Wu, Liu, Qi, Ba, Jiu>>

\* the digits in order: the value of DecimalDigits[n] is n - 1
DecimalDigits == <<"0", "1", "2", "3", "4", "5", "6", "7", "8", "9">>

ValueOfDigit(c) == (CHOOSE n \in 1..10 : DecimalDigits[n] = c) - 1

\* the base-10 value of a string of digits: the sum of digit * 10^position
RECURSIVE PositionalSum(_, _)
PositionalSum(s, i) ==
  IF i > Len(s) THEN 0
  ELSE ValueOfDigit(s[i]) * 10 ^ (Len(s) - i) + PositionalSum(s, i + 1)

\* C6: chineseNumberToInt returns n for the n-th numeral of 一..九, 10 for 十,
\* 10 + x for 十X, 10 * x for X十 and 10 * x + y for X十Y, and the base-10
\* value of a string made of digits only.
C6_NumeralValues ==
  numResult # null =>
    /\ \A x \in 1..9 :
         /\ numStr = <<Numerals[x]>> => numResult = <<x>>
         /\ numStr = <<Shi, Numerals[x]>> => numResult = <<10 + x>>
         /\ numStr = <<Numerals[x], Shi>> => numResult = <<10 * x>>
         /\ \A y \in 1..9 :
              numStr = <<Numerals[x], Shi, Numerals[y]>>
                => numResult = <<10 * x + y>>
    /\ numStr = <<Shi>> => numResult = <<10>>
    /\ (numStr # <<>> /\ AllIn(numStr, Digits))
         => numResult = <<PositionalSum(numStr, 1)>>

\* 三十二 has been converted to 32
C6_Witness == numStr = <<San, Shi, Er>> /\ numResult = <<32>>

\* a call of parseSeasonFromTitle has returned
Returned1 == pc = "parsed"
ReturnedAny == pc \in {"parsed", "reparsed"}

\* C1: the year returned is null or an integer from 1900 to 2100.
C1_YearRange ==
  ReturnedAny => (year = null \/ (year[1] >= 1900 /\ year[1] <= 2100))

\* a call has returned the year 2100, the upper limit of the range
C1_Witness == Returned1 /\ year = <<2100>>

\* C2: seasonNumber is null exactly when no season rule matched, and is an
\* integer >= 1 otherwise.
C2_SeasonAtLeastOne ==
  ReturnedAny =>
    /\ (seasonNumber = null) <=> (firedRule = 0)
    /\ seasonNumber # null => seasonNumber[1] >= 1

\* a is a subsequence of b
RECURSIVE IsSubsequence(_, _)
IsSubsequence(a, b) ==
  IF a = <<>> THEN TRUE
  ELSE IF b = <<>> THEN FALSE
  ELSE IF a[1] = b[1] THEN IsSubsequence(Tail(a), Tail(b))
  ELSE IsSubsequence(a, Tail(b))

\* s with every underscore and every white-space character turned into a space
SpacesFolded(s) ==
  [i \in 1..Len(s) |-> IF s[i] \in SpaceChars \cup {"_"} THEN " " ELSE s[i]]

\* C3 as stated: cleanTitle is a subsequence of originalTitle, and
\* originalTitle is the input.
C3_SubsequenceOfOriginal ==
  ReturnedAny =>
    /\ originalTitle = title
    /\ IsSubsequence(cleanTitle, originalTitle)

\* C3: cleanTitle is a subsequence of originalTitle once every underscore and
\* every white-space character of originalTitle is read as a space, and
\* originalTitle is the input.
C3_SubsequenceOfFolded ==
  ReturnedAny =>
    /\ originalTitle = title
    /\ IsSubsequence(cleanTitle, SpacesFolded(originalTitle))

\* a title with an underscore has been parsed, and its cleanTitle keeps a
\* space where the underscore was
C3_Witness ==
  /\ Returned1
  /\ \E i \in 1..Len(originalTitle) : originalTitle[i] = "_"
  /\ cleanTitle # <<>>
  /\ ~IsSubsequence(cleanTitle, originalTitle)

\* sub occurs in s
Contains(s, sub) ==
  \E i \in 1..(Len(s) - Len(sub) + 1) : SubSeq(s, i, i + Len(sub) - 1) = sub

\* C4: when a season rule fired, cleanTitle holds no occurrence of the
\* substring that was matched and removed as the season token.
C4_TokenGone ==
  (Returned1 /\ firedRule # 0) => ~Contains(cleanTitle, seasonToken)

\* entry k of patterns matches somewhere in t
Matches(k, t) == \E i \in 1..Len(t) : patternAt(k, t, i).len > 0

\* what the lowest entry of patterns that matches in t yields: the season
\* number of its leftmost match and the title without that match
ByLowestEntry(t) ==
  LET matching == {k \in 1..NumPatterns : Matches(k, t)}
  IN  IF matching = {}
      THEN [rule |-> 0, seasonNumber |-> null, token |-> <<>>, rest |-> t]
      ELSE LET k == CHOOSE c \in matching : \A d \in matching : c <= d
               i == CHOOSE p \in 1..Len(t) :
                      /\ patternAt(k, t, p).len > 0
                      /\ \A q \in 1..(p - 1) : patternAt(k, t, q).len = 0
               m == patternAt(k, t, i)
           IN  [rule |-> k,
                seasonNumber |-> extract(k, m.cap),
                token |-> SubSeq(t, i, i + m.len - 1),
                rest |-> trim(Take(t, i - 1) \o Drop(t, i + m.len - 1))]

\* the lowest entry of patterns that matches the normalized title decides
\* seasonNumber and the span removed
LowestEntryDecides ==
  LET r == ByLowestEntry(normalized)
  IN  /\ firedRule = r.rule
      /\ seasonNumber = r.seasonNumber
      /\ seasonToken = r.token
      /\ afterSeason = r.rest

\* C5 as stated: the lowest-index rule that matches decides; a bracketed
\* Latin marker (rule 1 or 3) beats a bare Latin marker (rule 2 or 4)
\* whenever both are present; a Latin marker beats a Chinese one.
C5_BracketedLatinFirst ==
  ReturnedAny =>
    /\ LowestEntryDecides
    /\ ( /\ Matches(1, normalized) \/ Matches(3, normalized)
         /\ Matches(2, normalized) \/ Matches(4, normalized) )
         => firedRule \in {1, 3}
    /\ ( /\ \E k \in 1..4 : Matches(k, normalized)
         /\ \E k \in 5..8 : Matches(k, normalized) )
         => firedRule \in 1..4

\* C5: the lowest-index rule that matches decides; a bracketed marker beats
\* the bare marker of its own form (rule 1 beats rule 2, rule 3 beats rule
\* 4), while a bare S-form (rule 2) beats a bracketed Season form (rule 3);
\* a Latin marker beats a Chinese one.
C5_LowestRuleFirst ==
  ReturnedAny =>
    /\ LowestEntryDecides
    /\ Matches(1, normalized) => firedRule = 1
    /\ (Matches(3, normalized) /\ Matches(4, normalized)) => firedRule # 4
    /\ (Matches(2, normalized) /\ Matches(3, normalized)
          /\ ~Matches(1, normalized)) => firedRule = 2
    /\ ( /\ \E k \in 1..4 : Matches(k, normalized)
         /\ \E k \in 5..8 : Matches(k, normalized) )
         => firedRule \in 1..4

\* a bare S-form marker stood before a bracketed Season marker and a Chinese
\* marker, and the S-form decided
C5_Witness ==
  /\ Returned1
  /\ firedRule = 2
  /\ Matches(3, normalized)
  /\ Matches(6, normalized)
  /\ seasonMatch(3, normalized) < seasonMatch(2, normalized)

\* the call on input has returned just this cleanTitle, season and year
Yields(input, clean, season, yr) ==
  (Returned1 /\ title = input) =>
    /\ cleanTitle = clean
    /\ seasonNumber = season
    /\ year = yr
    /\ originalTitle = input

\* C7: the documented scenarios: 权力的游戏 第一季 gives 权力的游戏 and season 1
\* with no year, Breaking Bad S01 gives Breaking Bad and season 1, Game of
\* Thrones Season 1 gives Game of Thrones and season 1, 绝命毒师 第二部 gives
\* 绝命毒师 and season 2, Movie_Title_2021 gives Movie Title, year 2021 and no
\* season, [2023] Some Movie gives Some Movie and year 2023.
C7_Scenarios ==
  /\ Yields(T_QuanLiSeason1, T_QuanLi, <<1>>, null)
  /\ Yields(T_BreakingBad, SubSeq(T_BreakingBad, 1, 12), <<1>>, null)
  /\ Yields(T_GameOfThrones, SubSeq(T_GameOfThrones, 1, 15), <<1>>, null)
  /\ Yields(T_JueMingPart2, SubSeq(T_JueMingPart2, 1, 4), <<2>>, null)
  /\ Yields(T_MovieTitle,
            <<"M", "o", "v", "i", "e", " ", "T", "i", "t", "l", "e">>,
            null, <<2021>>)
  /\ Yields(T_SomeMovie, SubSeq(T_SomeMovie, 8, 17), null, <<2023>>)

\* Movie_Title_2021 has been parsed to Movie Title and the year 2021
C7_Witness ==
  /\ Returned1
  /\ title = T_MovieTitle
  /\ year = <<2021>>
  /\ Len(cleanTitle) = 11

\* C8: when rule k fired, parsing the returned cleanTitle again does not
\* fire rule k a second time.
C8_NoSecondToken ==
  (pc = "reparsed" /\ prevRule # 0) => firedRule # prevRule

\* year pattern k matches t and the year of its leftmost match is invalid
InvalidYearMatch(k, t) ==
  /\ \E i \in 1..Len(t) : yearPatternAt(k, t, i).len > 0
  /\ LET i == CHOOSE p \in 1..Len(t) :
                /\ yearPatternAt(k, t, p).len > 0
                /\ \A q \in 1..(p - 1) : yearPatternAt(k, t, q).len = 0
         y == PositionalSum(yearPatternAt(k, t, i).cap, 1)
     IN  y < 1900 \/ y > 2100

\* C9 as stated: once a year pattern matches an out-of-range value, no year
\* is found at any other place: year is null and the year step leaves the
\* title as it was.
C9_InvalidMatchEndsSearch ==
  ( /\ ReturnedAny
    /\ \E k \in 1..NumYearPatterns : InvalidYearMatch(k, afterSeason) )
    => (year = null /\ afterYear = afterSeason)

\* what the first year pattern whose leftmost match is a valid year yields
ByFirstValidPattern(t) ==
  LET hit(k) == \E i \in 1..Len(t) : yearPatternAt(k, t, i).len > 0
      valid == {k \in 1..NumYearPatterns : hit(k) /\ ~InvalidYearMatch(k, t)}
  IN  IF valid = {} THEN [rule |-> 0, year |-> null, rest |-> t]
      ELSE LET k == CHOOSE c \in valid : \A d \in valid : c <= d
               i == CHOOSE p \in 1..Len(t) :
                      /\ yearPatternAt(k, t, p).len > 0
                      /\ \A q \in 1..(p - 1) : yearPatternAt(k, t, q).len = 0
               m == yearPatternAt(k, t, i)
           IN  [rule |-> k,
                year |-> <<PositionalSum(m.cap, 1)>>,
                rest |-> trim(Take(t, i - 1) \o Drop(t, i + m.len - 1))]

\* C9: a pattern whose leftmost match is out of range removes nothing and
\* the next pattern is tried on the same title; each pattern looks at its
\* own leftmost match only.  The year is that of the first pattern, in
\* order, whose leftmost match is in range, and that match is removed; the
\* year is null and the title unchanged exactly when no pattern's leftmost
\* match is in range.
C9_FirstValidPattern ==
  ReturnedAny =>
    LET r == ByFirstValidPattern(afterSeason)
    IN  /\ yearRule = r.rule
        /\ year = r.year
        /\ afterYear = r.rest

\* the bracketed pattern matched an out-of-range year, and the bare pattern
\* then found a valid year at another place
C9_Witness ==
  /\ Returned1
  /\ InvalidYearMatch(1, afterSeason)
  /\ yearRule = 3
  /\ year = <<1900>>
  /\ afterYear # afterSeason

\* C10: the cleanup steps applied to cleanTitle change nothing: no empty
\* pair of brackets or parentheses, no two white-space characters in a row,
\* no white space at either end.
C10_CleanFixedPoint ==
  ReturnedAny =>
    /\ cleanStep(cleanTitle) = cleanTitle
    /\ ~Contains(cleanTitle, <<"[", "]">>)
    /\ ~Contains(cleanTitle, <<"(", ")">>)
    /\ \A i \in 1..(Len(cleanTitle) - 1) :
         ~(cleanTitle[i] \in SpaceChars /\ cleanTitle[i + 1] \in SpaceChars)
    /\ cleanTitle # <<>> =>
         (cleanTitle[1] \notin SpaceChars
            /\ cleanTitle[Len(cleanTitle)] \notin SpaceChars)

(***************************************************************************)
(* CorrectDialog: the useState cells under the handlers, the effect and    *)
(* the responses of the three services.  A handler runs to its next await  *)
(* in one step; the response it waits for arrives in a later step, and     *)
(* any event the rendered dialog allows may come in between.               *)
(***************************************************************************)
\* the messages setError is given
ErrEnterKeyword  == "enter a search keyword"          \* 请输入搜索关键词
ErrNoMatch       == "no matching result"              \* 未找到匹配的结果
ErrSearchFailed  == "search failed"                   \* 搜索失败
ErrSearchRetry   == "search failed, retry"            \* 搜索失败，请重试
ErrSeasonsFailed == "season list failed"              \* 获取季度列表失败
ErrSeasonsRetry  == "season list failed, retry"       \* 获取季度列表失败，请重试
ErrCorrectRetry  == "correction failed, retry"        \* 纠错失败，请重试

\* TMDBResult, as far as the handlers read it
TvShow == [id |-> 1, media_type |-> "tv"]
Movie  == [id |-> 2, media_type |-> "movie"]

\* the lists data.results of a search response may hold
ResultLists == {<<>>, <<TvShow>>, <<Movie>>, <<TvShow, Movie>>}

\* TMDBSeason, as far as the handlers read it
Season1 == [id |-> 11, season_number |-> 1]
Season2 == [id |-> 12, season_number |-> 2]

\* the lists data.seasons of a season response may hold
SeasonLists == {<<>>, <<Season1>>, <<Season1, Season2>>}

\* the values of the prop currentTitle and of the search box
CurrentTitles == {<<"a">>, <<"b">>}
Queries == CurrentTitles \cup {<<>>, <<" ">>}

\* calls of handleSearch that may wait for their response at one time
MaxSearches == 2

Elements(list) == {list[i] : i \in 1..Len(list)}

InitDialog ==
  /\ isOpen = FALSE
  /\ currentTitle \in CurrentTitles
  /\ searchQuery = currentTitle
  /\ searching = FALSE
  /\ results = <<>>
  /\ error = ""
  /\ correcting = FALSE
  /\ selectedResult = null
  /\ seasons = <<>>
  /\ loadingSeasons = FALSE
  /\ showSeasonSelection = FALSE
  /\ searches = 0
  /\ calls = {}
  /\ title = <<>>
  /\ pc = "dialog"
  /\ originalTitle = <<>>
  /\ cleanTitle = <<>>
  /\ seasonNumber = null
  /\ year = null
  /\ firedRule = 0
  /\ prevRule = 0
  /\ seasonToken = <<>>
  /\ normalized = <<>>
  /\ afterSeason = <<>>
  /\ afterYear = <<>>
  /\ yearRule = 0
  /\ numStr = <<>>
  /\ numResult = null

parserVars == <<parseVars, numStr, numResult>>

\* the body of the effect when isOpen holds: the dialog is reset
ResetEffect(t) ==
  /\ searchQuery' = t
  /\ results' = <<>>
  /\ error' = ""
  /\ selectedResult' = null
  /\ seasons' = <<>>
  /\ showSeasonSelection' = FALSE

\* the parent opens the dialog: isOpen changes and the effect runs
Open ==
  /\ pc = "dialog"
  /\ ~isOpen
  /\ isOpen' = TRUE
  /\ ResetEffect(currentTitle)
  /\ UNCHANGED <<currentTitle, searching, correcting, loadingSeasons,
                 searches, calls, parserVars>>

\* onClose from the X button: the parent closes the dialog; the effect runs
\* and does nothing
Close ==
  /\ pc = "dialog"
  /\ isOpen
  /\ isOpen' = FALSE
  /\ UNCHANGED <<currentTitle, searchQuery, searching, results, error,
                 correcting, selectedResult, seasons, loadingSeasons,
                 showSeasonSelection, searches, calls, parserVars>>

\* the parent passes another currentTitle: the effect runs
ChangeTitle ==
  /\ pc = "dialog"
  /\ \E t \in CurrentTitles \ {currentTitle} :
       /\ currentTitle' = t
       /\ IF isOpen THEN ResetEffect(t)
          ELSE UNCHANGED <<searchQuery, results, error, selectedResult,
                           seasons, showSeasonSelection>>
  /\ UNCHANGED <<isOpen, searching, correcting, loadingSeasons, searches,
                 calls, parserVars>>

\* onChange of the search box
ChangeQuery ==
  /\ pc = "dialog"
  /\ isOpen
  /\ \E q \in Queries \ {searchQuery} : searchQuery' = q
  /\ UNCHANGED <<isOpen, currentTitle, searching, results, error, correcting,
                 selectedResult, seasons, loadingSeasons, showSeasonSelection,
                 searches, calls, parserVars>>

\* handleSearch up to its await, with the query blank
handleSearchBlank ==
  /\ pc = "dialog"
  /\ isOpen
  /\ trim(searchQuery) = <<>>
  /\ error' = ErrEnterKeyword
  /\ UNCHANGED <<isOpen, currentTitle, searchQuery, searching, results,
                 correcting, selectedResult, seasons, loadingSeasons,
                 showSeasonSelection, searches, calls, parserVars>>

\* what handleSearch sets before its await
SearchReset ==
  /\ searching' = TRUE
  /\ error' = ""
  /\ results' = <<>>
  /\ showSeasonSelection' = FALSE
  /\ selectedResult' = null

\* handleSearch up to its await: the Enter key of the search box calls it
\* whenever the dialog is shown (the button alone is disabled by searching)
handleSearch ==
  /\ pc = "dialog"
  /\ isOpen
  /\ trim(searchQuery) # <<>>
  /\ searches < MaxSearches
  /\ SearchReset
  /\ searches' = searches + 1
  /\ UNCHANGED <<isOpen, currentTitle, searchQuery, correcting, seasons,
                 loadingSeasons, calls, parserVars>>

\* handleSearch from the response on: a list of results, a body without
\* them, or a failure
SearchResponse ==
  /\ pc = "dialog"
  /\ searches > 0
  /\ searches' = searches - 1
  /\ \/ \E list \in ResultLists :
          /\ results' = list
          /\ error' = IF Len(list) = 0 THEN ErrNoMatch ELSE error
     \/ error' = ErrSearchFailed /\ UNCHANGED results
     \/ error' = ErrSearchRetry /\ UNCHANGED results
  /\ searching' = FALSE
  /\ UNCHANGED <<isOpen, currentTitle, searchQuery, correcting,
                 selectedResult, seasons, loadingSeasons,
                 showSeasonSelection, calls, parserVars>>

\* a call that waits for its response: fetchSeasons inside
\* handleSelectResult(result), or handleCorrect(result, season)
Call(op, result, season) == [op |-> op, result |-> result, season |-> season]

\* handleSelectResult up to its await; the button is rendered with the list
\* of results and disabled by correcting and by loadingSeasons
handleSelectResult ==
  /\ pc = "dialog"
  /\ isOpen
  /\ ~showSeasonSelection
  /\ ~(correcting \/ loadingSeasons)
  /\ \E result \in Elements(results) :
       IF result.media_type = "tv"
       THEN /\ selectedResult' = <<result>>
            /\ loadingSeasons' = TRUE
            /\ error' = ""
            /\ calls' = calls \cup {Call("fetchSeasons", result, null)}
            /\ UNCHANGED correcting
       ELSE /\ correcting' = TRUE
            /\ calls' = calls \cup {Call("handleCorrect", result, null)}
            /\ UNCHANGED <<selectedResult, loadingSeasons, error>>
  /\ UNCHANGED <<isOpen, currentTitle, searchQuery, searching, results,
                 seasons, showSeasonSelection, searches, parserVars>>

\* what handleSelectResult does with the list fetchSeasons returned
AfterFetchSeasons(c, seasonsList) ==
  IF Len(seasonsList) = 1
  THEN /\ correcting' = TRUE
       /\ calls' = (calls \ {c})
                     \cup {Call("handleCorrect", c.result, <<seasonsList[1]>>)}
       /\ UNCHANGED <<seasons, showSeasonSelection>>
  ELSE IF Len(seasonsList) > 1
  THEN /\ seasons' = seasonsList
       /\ showSeasonSelection' = TRUE
       /\ calls' = calls \ {c}
       /\ UNCHANGED correcting
  ELSE /\ correcting' = TRUE
       /\ calls' = (calls \ {c}) \cup {Call("handleCorrect", c.result, null)}
       /\ UNCHANGED <<seasons, showSeasonSelection>>

\* fetchSeasons from the response on, then the rest of handleSelectResult
SeasonsResponse ==
  /\ pc = "dialog"
  /\ \E c \in calls :
       /\ c.op = "fetchSeasons"
       /\ loadingSeasons' = FALSE
       /\ \/ \E list \in SeasonLists :
               AfterFetchSeasons(c, list) /\ UNCHANGED error
          \/ /\ error' \in {ErrSeasonsFailed, ErrSeasonsRetry}
             /\ AfterFetchSeasons(c, <<>>)
  /\ UNCHANGED <<isOpen, currentTitle, searchQuery, searching, results,
                 selectedResult, searches, parserVars>>

\* handleSelectSeason; the button is rendered in the season picker once the
\* seasons are loaded and disabled by correcting
handleSelectSeason ==
  /\ pc = "dialog"
  /\ isOpen
  /\ showSeasonSelection
  /\ ~loadingSeasons
  /\ ~correcting
  /\ \E season \in Elements(seasons) :
       IF selectedResult = null
       THEN UNCHANGED <<correcting, calls>>
       ELSE /\ correcting' = TRUE
            /\ calls' = calls
                 \cup {Call("handleCorrect", selectedResult[1], <<season>>)}
  /\ UNCHANGED <<isOpen, currentTitle, searchQuery, searching, results,
                 error, selectedResult, seasons, loadingSeasons,
                 showSeasonSelection, searches, parserVars>>

\* handleCorrect from the response on: onCorrect and onClose (the parent
\* closes the dialog), or the error
CorrectResponse ==
  /\ pc = "dialog"
  /\ \E c \in calls :
       /\ c.op = "handleCorrect"
       /\ calls' = calls \ {c}
       /\ \/ isOpen' = FALSE /\ UNCHANGED error
          \/ error' = ErrCorrectRetry /\ UNCHANGED isOpen
  /\ correcting' = FALSE
  /\ UNCHANGED <<currentTitle, searchQuery, searching, results,
                 selectedResult, seasons, loadingSeasons,
                 showSeasonSelection, searches, parserVars>>

\* handleBackToResults; the button is rendered in the season picker
handleBackToResults ==
  /\ pc = "dialog"
  /\ isOpen
  /\ showSeasonSelection
  /\ showSeasonSelection' = FALSE
  /\ selectedResult' = null
  /\ seasons' = <<>>
  /\ UNCHANGED <<isOpen, currentTitle, searchQuery, searching, results,
                 error, correcting, loadingSeasons, searches, calls,
                 parserVars>>

NextDialog ==
  \/ Open
  \/ Close
  \/ ChangeTitle
  \/ ChangeQuery
  \/ handleSearchBlank
  \/ handleSearch
  \/ SearchResponse
  \/ handleSelectResult
  \/ SeasonsResponse
  \/ handleSelectSeason
  \/ CorrectResponse
  \/ handleBackToResults

SpecDialog == InitDialog /\ [][NextDialog]_vars

\* C11: in every state of CorrectDialog, showSeasonSelection implies that
\* selectedResult is set, so that handleSelectSeason always submits.
C11_PickerHasResult == showSeasonSelection => selectedResult # null

====
